---- MODULE Spec2Model ----
(***************************************************************************)
(* Model of the ticket fetch pipeline of jason-checker-backend:            *)
(*   src/src/services/ticketmaster.service.js  (fetchAvailableTickets,     *)
(*       fetchNetworkData, getBrowser, the snapshot cache)                 *)
(*   src/unnamed/part_001                      (detectChanges, pollTickets)*)
(*   src/testPuppeteer.js                      (ticket controller)         *)
(*                                                                         *)
(* Spec      : fetch cycles run one after another against a site that      *)
(*             answers every inspection nondeterministically.  Each await  *)
(*             of the async function is a step.                            *)
(* DiffSpec  : detectChanges applied to every pair of bounded snapshots.   *)
(* CapSpec   : the changes list of one endpoint over a run of cycles.      *)
(* PollSpec  : pollTickets invocations started by timer ticks, interleaved *)
(*             with fetchAndUpdateTickets requests, over a collection of   *)
(*             two documents.                                              *)
(* LaunchSpec: getBrowser invocations and cleanup, interleaved.            *)
(***************************************************************************)
EXTENDS Integers, Sequences, FiniteSets, TLC

\* ---------------------------------------------------------------- bounds
MaxCalls == 2        \* fetchAvailableTickets calls started in one behaviour
MaxTime == 5000      \* the clock stops advancing here (ms)
TimeStep == 2500     \* granularity of the clock (ms)
MaxResponses == 2    \* responses delivered to one capture listener
MaxOld == 2          \* length of the old snapshot's tickets array
MaxNew == 3          \* length of the new snapshot's tickets array
MaxBatch == 3        \* change events one cycle appends to the changes list
MaxProduced == 104   \* change events produced for one endpoint
MaxTicks == 2        \* timer ticks of setInterval(pollTickets, ...)
MaxRequests == 1     \* fetchAndUpdateTickets requests
MaxCallers == 3      \* getBrowser invocations
MaxTabs == 2         \* fetch cycles that overlap in one browser

\* ------------------------------------------------------ program constants
TTL == 5000              \* ticketmaster.service.js:247
maxRetries == 3          \* ticketmaster.service.js:279
maxAttempts == 3         \* ticketmaster.service.js:312
changesCap == 100        \* part_001:84-85, ticket controller:120-121

\* JavaScript null / undefined
NULL == [null |-> TRUE]

\* const eventId = eventIdMatch ? eventIdMatch[1] : null (a falsy identifier)
NoEventId == ""

\* URLs are sequences of path segments; an identifier segment is one that
\* matches [A-Z0-9]+ (case-insensitive).
AlnumSegs == {"1E00625CD153457B", "Z7R9", "event"}
Urls ==
  { <<"denver", "event", "1E00625CD153457B">>,
    <<"boston", "event", "Z7R9">>,
    <<"denver", "artist", "1E00625CD153457B">>,
    <<"denver", "event", "">> }

\* url.match(/event\/([A-Z0-9]+)/i): the segment after the first "event"
\* segment that is followed by an alphanumeric run; null when there is none.
RECURSIVE MatchFrom(_, _)
MatchFrom(url, i) ==
  IF i >= Len(url) THEN NULL
  ELSE IF url[i] = "event" /\ url[i + 1] \in AlnumSegs
       THEN [id |-> url[i + 1]]
       ELSE MatchFrom(url, i + 1)

eventIdMatchAnySegment(url) ==
  IF Len(url) > 0 /\ url[Len(url)] \in AlnumSegs
  THEN [id |-> url[Len(url)]]
  ELSE NULL
eventIdMatch(url) == MatchFrom(url, 1)

EventIds == {"1E00625CD153457B", "Z7R9"}

\* ------------------------------------------------------------- variables
VARIABLES
  now,               \* Date.now()
  browserCache,      \* module-level Map: "default" -> browser
  networkDataCache,  \* module-level Map: eventId -> {data, timestamp}
  pageContent,       \* the free identifier pageContent (global binding)
  calls,             \* number of fetchAvailableTickets calls started
  pc,                \* position of the running call
  url,               \* argument of the running call
  eventId,
  retryCount,
  navigationSuccess,
  attempt,
  passed,
  realEventPage,
  stadiumData,
  networkData,
  tickets,
  ret,               \* how the call ended: returned value or thrown error
  lookup,            \* outcome of the cache lookup of the running call
  fx,                \* kinds of side effects performed by the running call
  gotos,             \* page.goto attempts of the running call (lines 284)
  navShots,          \* navigation_failed screenshots of the running call
  backoffs,          \* sleep(2000) waits after a failed navigation
  remediations,      \* clicks and reloads done by the gate loop
  capture,           \* fetchNetworkData: promise, listener, timer
  result,            \* the result object built at lines 540-555
  published,         \* ticketUpdate events of the running call, as forwarded
  page,              \* what the page shows to the inspection that comes next
  oldData,           \* detectChanges: first argument
  newData,           \* detectChanges: second argument
  changes,           \* detectChanges: returned list
  diffPc,
  stored,            \* ticketUrl.changes of one endpoint, as persisted
  produced,          \* change events produced for that endpoint so far
  capBy,             \* the handler that updated the list last
  capPrev,           \* the list before that update
  isPolling,         \* part_001 line 49
  db,                \* the TicketUrl collection: endpoint -> document
  cyc,               \* pollTickets invocations, one per timer tick
  ticks,             \* timer ticks fired so far
  req,               \* fetchAndUpdateTickets requests
  saves,             \* ticketUrl.save() calls that were persisted
  acq,               \* getBrowser invocations
  launched,          \* browsers launched since the last cleanup
  cleanupPc,         \* position of cleanup()
  tabs,              \* overlapping fetch cycles, each with its own page
  pages              \* the pages open in the shared browser

fetchVars ==
  <<now, browserCache, networkDataCache, pageContent, calls, pc, url, eventId,
    retryCount, navigationSuccess, attempt, passed, realEventPage,
    stadiumData, networkData, tickets, ret, lookup, fx, gotos, navShots,
    backoffs, remediations, capture, result, published, page>>

diffVars == <<oldData, newData, changes, diffPc>>

capVars == <<stored, produced, capBy, capPrev>>

pollVars == <<isPolling, db, cyc, ticks, req, saves>>

launchVars == <<acq, launched, cleanupPc>>

tabVars == <<tabs, pages>>

\* Everything outside the fetch pipeline.
aside == <<diffVars, capVars, pollVars, launchVars, tabVars>>

vars == <<fetchVars, diffVars, capVars, pollVars, launchVars, tabVars>>

\* fetchNetworkData before it is called: nothing registered on the page.
NoCapture ==
  [promise |-> "none", value |-> NULL, listener |-> FALSE, timer |-> FALSE,
   ons |-> 0, offs |-> 0, parsing |-> 0, responses |-> 0]

\* The page while the call is not about to inspect it.
NoPage == [view |-> "none"]

NotThrown == [kind |-> "none"]
Returned(v) == [kind |-> "returned", value |-> v]
Thrown(e) == [kind |-> "thrown", error |-> e]

\* Local variables of a call that has not reached their declaration.
locals == <<retryCount, navigationSuccess, attempt, passed, realEventPage,
            stadiumData, networkData, tickets>>
counters == <<gotos, navShots, backoffs, remediations, result, published>>
module == <<browserCache, networkDataCache, pageContent>>

FreshLocals ==
  /\ retryCount' = 0
  /\ navigationSuccess' = FALSE
  /\ attempt' = 0
  /\ passed' = FALSE
  /\ realEventPage' = FALSE
  /\ stadiumData' = NULL
  /\ networkData' = NULL
  /\ tickets' = <<>>
  /\ gotos' = 0
  /\ navShots' = 0
  /\ backoffs' = 0
  /\ remediations' = 0
  /\ capture' = NoCapture
  /\ result' = NULL
  /\ published' = <<>>

\* ------------------------------------------------------------------ Init
\* The module never declares pageContent (it is only read at line 397 and
\* assigned at line 408), so the identifier resolves against the global
\* object: either no such binding exists ("unbound", every access throws
\* ReferenceError in module code) or the embedding process has defined one,
\* holding some earlier document text.
Contents == {"event page", "verify you are human"}

FetchInit ==
  /\ now = 0
  /\ browserCache = NULL
  /\ networkDataCache = [e \in EventIds |-> NULL]
  /\ pageContent \in {"unbound"} \cup Contents
  /\ calls = 0
  /\ pc = "idle"
  /\ url = <<>>
  /\ eventId = NoEventId
  /\ retryCount = 0
  /\ navigationSuccess = FALSE
  /\ attempt = 0
  /\ passed = FALSE
  /\ realEventPage = FALSE
  /\ stadiumData = NULL
  /\ networkData = NULL
  /\ tickets = <<>>
  /\ ret = NotThrown
  /\ lookup = "none"
  /\ fx = {}
  /\ gotos = 0
  /\ navShots = 0
  /\ backoffs = 0
  /\ remediations = 0
  /\ capture = NoCapture
  /\ result = NULL
  /\ published = <<>>
  /\ page = NoPage

DiffIdle ==
  /\ oldData = NULL
  /\ newData = NULL
  /\ changes = <<>>
  /\ diffPc = "idle"

\* The changes list of a document that TicketUrl.create has just stored.
CapIdle ==
  /\ stored = <<>>
  /\ produced = 0
  /\ capBy = "none"
  /\ capPrev = <<>>

\* The monitored endpoints in the collection, in the order find() returns
\* them (controller addUrl stores one document per URL).
DocIds == {1, 2}
MissingId == 0
UrlOf(id) ==
  IF id = 1 THEN <<"denver", "event", "1E00625CD153457B">>
  ELSE <<"boston", "event", "Z7R9">>

\* TicketUrl.create({url, eventId, metadata: {fetchCount: 0,
\* lastSuccessfulFetch: null}}) with the schema defaults of TicketUrl.js.
NewDocument(id) ==
  [id |-> id, url |-> UrlOf(id), tickets |-> <<>>, lastChecked |-> NULL,
   stadium |-> NULL, changes |-> <<>>, lastNetworkData |-> NULL,
   lastSuccessfulFetch |-> NULL, fetchCount |-> 0]

\* A pollTickets invocation that its timer tick has not started yet.  urls,
\* idx and doc are locals of the running invocation; gateFailure tells
\* whether the result being stored reports the bot gate; batch, started,
\* inflight and failed record which documents find() returned, for which of
\* them the loop body started, how many bodies are running and how many
\* errors the running invocation has caught.
NoCycle ==
  [pc |-> "unborn", urls |-> <<>>, batch |-> <<>>, idx |-> 0,
   gateFailure |-> FALSE, doc |-> NULL, started |-> <<>>, inflight |-> 0, failed |-> 0]

\* A fetchAndUpdateTickets request that has not arrived yet.
NoRequest ==
  [pc |-> "unborn", id |-> MissingId, loaded |-> NULL,
   gateFailure |-> FALSE, doc |-> NULL, status |-> 0]

Cycles == 1..MaxTicks
Requests == 1..MaxRequests

PollIdle ==
  /\ isPolling = FALSE
  /\ db = [id \in DocIds |-> NewDocument(id)]
  /\ cyc = [i \in Cycles |-> NoCycle]
  /\ ticks = 0
  /\ req = [j \in Requests |-> NoRequest]
  /\ saves = 0

\* A getBrowser invocation that has not been made yet.
NoAcquisition == [pc |-> "idle", handle |-> 0]
Callers == 1..MaxCallers

LaunchIdle ==
  /\ acq = [c \in Callers |-> NoAcquisition]
  /\ launched = 0
  /\ cleanupPc = "idle"

\* A fetch cycle that has not created its page yet.
NoTab == [pc |-> "idle", retryCount |-> 0, toClose |-> {}]
TabIds == 1..MaxTabs

\* The page a launched browser opens by itself.
BlankPage == 0

TabsIdle ==
  /\ tabs = [t \in TabIds |-> NoTab]
  /\ pages = {BlankPage}

Init ==
  FetchInit /\ DiffIdle /\ CapIdle /\ PollIdle /\ LaunchIdle /\ TabsIdle

\* ------------------------------------------------------------ the clock
\* Time passes between any two steps of the program.
Tick ==
  /\ now + TimeStep <= MaxTime
  /\ now' = now + TimeStep
  /\ UNCHANGED <<module, calls, pc, url, eventId, locals, ret, lookup, fx,
                 counters, capture>>
  /\ UNCHANGED <<page, aside>>

\* ------------------------------------------- fetchAvailableTickets: entry
\* if (Date.now() - cachedData.timestamp < 5000)
CacheFreshStale(entry, t) == t - entry.timestamp <= TTL
CacheFresh(entry, t) == t - entry.timestamp < TTL

CallBrowserFirst ==
  /\ pc \in {"idle", "done"}
  /\ calls < MaxCalls
  /\ calls' = calls + 1
  /\ \E u \in Urls :
       LET m == eventIdMatch(u)
           id == IF m = NULL THEN NoEventId ELSE m.id
       IN /\ url' = u
          /\ FreshLocals
          /\ fx' = IF id = NoEventId THEN {} ELSE {"browser", "page"}
          /\ IF id = NoEventId
             THEN /\ eventId' = NoEventId
                  /\ lookup' = "none"
                  /\ ret' = Thrown("Invalid Ticketmaster URL")
                  /\ pc' = "done"
             ELSE /\ eventId' = id
                  /\ IF networkDataCache[id] # NULL
                     THEN IF CacheFresh(networkDataCache[id], now)
                          THEN /\ lookup' = "hit"
                               /\ ret' = Returned(networkDataCache[id].data)
                               /\ pc' = "done"
                          ELSE /\ lookup' = "stale"
                               /\ ret' = NotThrown
                               /\ pc' = "getBrowser"
                     ELSE /\ lookup' = "absent"
                          /\ ret' = NotThrown
                          /\ pc' = "getBrowser"
  /\ UNCHANGED <<now, module>>
  /\ UNCHANGED <<page, aside>>

\* Lines 231-251: extract the identifier, throw on a URL without one, return
\* the cached data when a fresh entry exists, otherwise go on to the browser.
Call ==
  /\ pc \in {"idle", "done"}
  /\ calls < MaxCalls
  /\ calls' = calls + 1
  /\ \E u \in Urls :
       LET m == eventIdMatch(u)
           id == IF m = NULL THEN NoEventId ELSE m.id
       IN /\ url' = u
          /\ FreshLocals
          /\ fx' = {}
          /\ IF id = NoEventId
             THEN /\ eventId' = NoEventId
                  /\ lookup' = "none"
                  /\ ret' = Thrown("Invalid Ticketmaster URL")
                  /\ pc' = "done"
             ELSE /\ eventId' = id
                  /\ IF networkDataCache[id] # NULL
                     THEN IF CacheFresh(networkDataCache[id], now)
                          THEN /\ lookup' = "hit"
                               /\ ret' = Returned(networkDataCache[id].data)
                               /\ pc' = "done"
                          ELSE /\ lookup' = "stale"
                               /\ ret' = NotThrown
                               /\ pc' = "getBrowser"
                     ELSE /\ lookup' = "absent"
                          /\ ret' = NotThrown
                          /\ pc' = "getBrowser"
  /\ UNCHANGED <<now, module>>
  /\ UNCHANGED <<page, aside>>

\* Lines 83-119 and 253-275: getBrowser launches a browser unless one is
\* cached, then a new page is created and configured.
getBrowser ==
  /\ pc = "getBrowser"
  /\ browserCache' = [browser |-> "default"]
  /\ fx' = fx \cup {"browser", "page"}
  /\ pc' = "navigate"
  /\ UNCHANGED <<now, networkDataCache, pageContent, calls, url, eventId,
                 locals, ret, lookup, counters, capture>>
  /\ UNCHANGED <<page, aside>>

\* ------------------------------------------------- navigation retry loop
\* Lines 282-307, one pass of the while body.  The attempt (page.goto, then
\* closeOtherTabs and the 12 s settle delay) either completes or throws; a
\* throw is caught, counted, photographed and, unless it was the last of
\* maxRetries, followed by the 2 s backoff.
GiveUpLate(n) == n > maxRetries
GiveUp(n) == n = maxRetries

navigate ==
  /\ pc = "navigate"
  /\ retryCount < maxRetries /\ ~navigationSuccess
  /\ gotos' = gotos + 1
  /\ \E ok \in BOOLEAN :
       IF ok
       THEN /\ navigationSuccess' = TRUE
            /\ fx' = fx \cup {"goto", "closeOtherTabs", "settle"}
            /\ UNCHANGED <<retryCount, navShots, backoffs, ret, pc>>
       ELSE /\ retryCount' = retryCount + 1
            /\ navShots' = navShots + 1
            /\ fx' = fx \cup {"goto", "screenshot"}
            /\ UNCHANGED navigationSuccess
            /\ IF GiveUp(retryCount + 1)
               THEN /\ ret' = Thrown("navigation")
                    /\ pc' = "done"
                    /\ UNCHANGED backoffs
               ELSE /\ backoffs' = backoffs + 1
                    /\ UNCHANGED <<ret, pc>>
  /\ UNCHANGED <<now, module, calls, url, eventId, attempt, passed,
                 realEventPage, stadiumData, networkData, tickets, lookup,
                 remediations, capture, result, published>>
  /\ UNCHANGED <<page, aside>>

\* What one inspection of the page can find (lines 319-348): the loading
\* indicator never goes away and waitForFunction times out; otherwise the
\* captcha checkbox is present or not, and the block text is present or
\* not.
PageStates ==
  {[view |-> "gate", loading |-> TRUE, captcha |-> FALSE, blocked |-> FALSE]}
    \cup {[view |-> "gate", loading |-> FALSE, captcha |-> c, blocked |-> b] :
            c \in BOOLEAN, b \in BOOLEAN}

\* Line 282: the loop condition is false, control reaches the bot gate.
navigateExit ==
  /\ pc = "navigate"
  /\ ~(retryCount < maxRetries /\ ~navigationSuccess)
  /\ pc' = "gate"
  /\ page' \in PageStates
  /\ UNCHANGED <<now, module, calls, url, eventId, locals, ret, lookup, fx,
                 counters, capture>>
  /\ UNCHANGED aside

\* ------------------------------------------------------- bot gate loop
\* Lines 328-348: the checkbox is looked for first and clicked; only
\* without it is the text read and F5 pressed on the block page.
RemediationBlockFirst(v) ==
  IF v.blocked THEN "F5" ELSE IF v.captcha THEN "click" ELSE "none"
Remediation(v) ==
  IF v.captcha THEN "click" ELSE IF v.blocked THEN "F5" ELSE "none"

\* Lines 313-352, one pass of the while body on the page as it is; after a
\* remediation the page can have become anything.
gateIteration ==
  /\ pc = "gate"
  /\ attempt < maxAttempts /\ ~passed
  /\ attempt' = attempt + 1
  /\ IF page.loading
     THEN /\ ret' = Thrown("waitForFunction timeout")
          /\ pc' = "done"
          /\ page' = NoPage
          /\ UNCHANGED <<passed, remediations, fx>>
     ELSE IF Remediation(page) = "none"
     THEN /\ passed' = TRUE
          /\ fx' = fx \cup {"screenshot"}
          /\ page' = NoPage
          /\ UNCHANGED <<remediations, ret, pc>>
     ELSE /\ remediations' = remediations + 1
          /\ fx' = fx \cup {"screenshot", Remediation(page)}
          /\ page' \in PageStates
          /\ UNCHANGED <<passed, ret, pc>>
  /\ UNCHANGED <<now, module, calls, url, eventId, retryCount,
                 navigationSuccess, realEventPage, stadiumData, networkData,
                 tickets, lookup, gotos, navShots, backoffs, capture,
                 result, published>>
  /\ UNCHANGED aside

\* The result returned when the gate loop ends without passing (359-366).
FailedResult(id) ==
  [eventId |-> id, tickets |-> <<>>, stadiumData |-> NULL,
   networkData |-> NULL, status |-> "failed",
   reason |-> "Bot check or block page not passed"]

\* Lines 313 and 354-367: the loop condition is false; return the failed
\* result unless an iteration passed.
gateExit ==
  /\ pc = "gate"
  /\ ~(attempt < maxAttempts /\ ~passed)
  /\ IF ~passed
     THEN /\ fx' = fx \cup {"screenshot"}
          /\ ret' = Returned(FailedResult(eventId))
          /\ pc' = "done"
     ELSE /\ pc' = "consent"
          /\ UNCHANGED <<fx, ret>>
  /\ page' = NoPage
  /\ UNCHANGED <<now, module, calls, url, eventId, locals, lookup, counters,
                 capture>>
  /\ UNCHANGED aside

\* The document as page.url() and page.content() would report it: whether
\* the URL contains /event/<eventId>, and the text.
DocViews ==
  {[view |-> "doc", urlHasEvent |-> u, content |-> c] :
     u \in BOOLEAN, c \in Contents}

\* ------------------------------------------------------ consent modal
\* Lines 369-387: waitForSelector on the Accept & Continue button throws a
\* timeout when the button never appears; otherwise the button is clicked
\* and the loading indicator is awaited again (which can time out too).
acceptModal ==
  /\ pc = "consent"
  /\ \E seen \in {"absent", "present", "present then loading"} :
       CASE seen = "absent" ->
              /\ ret' = Thrown("waitForSelector timeout")
              /\ pc' = "done"
              /\ UNCHANGED fx
         [] seen = "present then loading" ->
              /\ ret' = Thrown("waitForFunction timeout")
              /\ pc' = "done"
              /\ fx' = fx \cup {"screenshot", "click"}
         [] seen = "present" ->
              /\ pc' = "validate"
              /\ fx' = fx \cup {"screenshot", "click"}
              /\ UNCHANGED ret
  /\ page' \in IF pc' = "validate" THEN DocViews ELSE {NoPage}
  /\ UNCHANGED <<now, module, calls, url, eventId, locals, lookup, counters,
                 capture>>
  /\ UNCHANGED aside

\* ------------------------------------------------------ page validation
\* /verify you are human|extra protections|recaptcha|
\*  your browsing activity has been unusual/i.test(content)
BotPhraseContents == {"verify you are human"}
HasBotPhrase(content) == content \in BotPhraseContents

\* The document is the event page: its URL contains /event/<eventId> and
\* its text holds none of the bot-verification phrases.
IsEventPage(v) == v.urlHasEvent /\ ~HasBotPhrase(v.content)

\* currentUrl.includes(`/event/${eventId}`) && !regex.test(pageContent):
\* the right operand is evaluated only when the left one is true.
\* Lines 393-398.  The URL is the page's; pageContent has not been assigned
\* yet in this call: the read throws when the identifier is unbound and
\* otherwise sees whatever the binding held before, not the page's text.
validate ==
  /\ pc = "validate"
  /\ LET urlHasEvent == page.urlHasEvent
     IN IF urlHasEvent /\ pageContent = "unbound"
        THEN /\ ret' = Thrown("ReferenceError: pageContent is not defined")
             /\ pc' = "done"
             /\ UNCHANGED realEventPage
        ELSE /\ realEventPage' = (urlHasEvent /\ ~HasBotPhrase(pageContent))
             /\ pc' = IF realEventPage' THEN "extractStadium" ELSE "reload"
             /\ UNCHANGED ret
  /\ page' = NoPage
  /\ UNCHANGED <<now, module, calls, url, eventId, retryCount,
                 navigationSuccess, attempt, passed, stadiumData, networkData,
                 tickets, lookup, fx, counters, capture>>
  /\ UNCHANGED aside

\* Lines 400-414: screenshot, page.reload, 7 s pause, then the assignment
\* pageContent = await page.content(), which throws in module code when the
\* identifier is unbound, and the second evaluation of the validation.
reload ==
  /\ pc = "reload"
  /\ fx' = fx \cup {"screenshot", "page.reload"}
  /\ \E urlHasEvent \in BOOLEAN, content \in Contents :
       IF pageContent = "unbound"
       THEN /\ ret' = Thrown("ReferenceError: pageContent is not defined")
            /\ pc' = "done"
            /\ UNCHANGED <<realEventPage, pageContent>>
       ELSE /\ pageContent' = content
            /\ realEventPage' = (urlHasEvent /\ ~HasBotPhrase(content))
            /\ pc' = IF realEventPage' THEN "extractStadium" ELSE "botCheckbox"
            /\ UNCHANGED ret
  /\ UNCHANGED <<now, browserCache, networkDataCache, calls, url, eventId,
                 retryCount, navigationSuccess, attempt, passed, stadiumData,
                 networkData, tickets, lookup, counters, capture>>
  /\ UNCHANGED <<page, aside>>

\* Lines 416-456: screenshot, then click the captcha checkbox if it is
\* there and wait for the loading indicator; every error is swallowed by the
\* try/catch.  realEventPage is not evaluated again.  The click can turn
\* the page into anything; without it the page stays as the reload left it,
\* which was not the event page.
botCheckbox ==
  /\ pc = "botCheckbox"
  /\ \E checkbox \in BOOLEAN :
       /\ fx' = fx \cup {"screenshot"}
                   \cup (IF checkbox THEN {"captcha click"} ELSE {})
       /\ page' \in IF checkbox THEN DocViews
                     ELSE {v \in DocViews : ~IsEventPage(v)}
  /\ pc' = "validated"
  /\ UNCHANGED <<now, module, calls, url, eventId, locals, ret, lookup,
                 counters, capture>>
  /\ UNCHANGED aside

\* The result returned when the page is not the event page (462-468).
BotCheckResult(id) ==
  [eventId |-> id, tickets |-> <<>>, stadiumData |-> NULL,
   networkData |-> NULL, botCheck |-> TRUE]

\* Lines 458-471.
validationExit ==
  /\ pc = "validated"
  /\ IF ~realEventPage
     THEN /\ ret' = Returned(BotCheckResult(eventId))
          /\ pc' = "done"
     ELSE /\ pc' = "extractStadium"
          /\ UNCHANGED ret
  /\ page' = NoPage
  /\ UNCHANGED <<now, module, calls, url, eventId, locals, lookup, fx,
                 counters, capture>>
  /\ UNCHANGED aside

\* ------------------------------------------------------ data extraction
\* What extractStadiumData (lines 136-191) can return: null when the page
\* throws, an object without a map, an object with map and sections.
StadiumValues ==
  { NULL,
    [stadiumImage |-> "none", layoutData |-> <<>>],
    [stadiumImage |-> "svg", layoutData |-> <<"section">>] }

\* Lines 475-476: let stadiumData = null; retryCount = 0.
dataExtraction ==
  /\ pc = "extractStadium"
  /\ stadiumData' = NULL
  /\ retryCount' = 0
  /\ pc' = "stadiumLoop"
  /\ UNCHANGED <<now, module, calls, url, eventId, navigationSuccess, attempt,
                 passed, realEventPage, networkData, tickets, ret, lookup, fx,
                 counters, capture>>
  /\ UNCHANGED <<page, aside>>

\* Lines 477-484, one pass of the while body.
extractStadiumData ==
  /\ pc = "stadiumLoop"
  /\ retryCount < maxRetries /\ stadiumData = NULL
  /\ \E sd \in StadiumValues :
       /\ stadiumData' = sd
       /\ retryCount' = IF sd = NULL THEN retryCount + 1 ELSE retryCount
  /\ fx' = fx \cup {"extract"}
  /\ UNCHANGED <<now, module, calls, pc, url, eventId, navigationSuccess,
                 attempt, passed, realEventPage, networkData, tickets, ret,
                 lookup, counters, capture>>
  /\ UNCHANGED <<page, aside>>

\* ------------------------------------------------------ fetchNetworkData
Payloads == {[payload |-> "p1"], [payload |-> "p2"]}

\* Lines 193-228, the executor of the promise: register responseHandler on
\* the page and arm the 10000 ms timer.  Reached when the stadium loop ends
\* (line 488).
fetchNetworkData ==
  /\ pc = "stadiumLoop"
  /\ ~(retryCount < maxRetries /\ stadiumData = NULL)
  /\ capture' = [NoCapture EXCEPT !.promise = "pending", !.listener = TRUE,
                                  !.timer = TRUE, !.ons = 1]
  /\ pc' = "capture"
  /\ UNCHANGED <<now, module, calls, url, eventId, locals, ret, lookup, fx,
                 counters>>
  /\ UNCHANGED <<page, aside>>

\* Lines 199-204: the page delivers a response to the registered handler; a
\* response whose URL contains the identifier and whose request is an xhr
\* starts response.json().
responseHandler ==
  /\ capture.listener
  /\ capture.responses < MaxResponses
  /\ \E matches \in BOOLEAN :
       capture' = [capture EXCEPT
                     !.responses = @ + 1,
                     !.parsing = IF matches THEN @ + 1 ELSE @]
  /\ UNCHANGED <<now, module, calls, pc, url, eventId, locals, ret, lookup,
                 fx, counters>>
  /\ UNCHANGED <<page, aside>>

\* resolve(v) of a promise: only the first call has an effect.
Resolve(c, v) ==
  IF c.promise = "pending"
  THEN [c EXCEPT !.promise = "resolved", !.value = v]
  ELSE c

\* What the handler does once response.json() has produced an object
\* (lines 207-214): clear the timer and resolve.
OnJson(c, json) == Resolve([c EXCEPT !.timer = FALSE], json)

\* Lines 205-217: response.json() settles; a body that is not JSON is
\* ignored.
responseJson ==
  /\ capture.parsing > 0
  /\ \E parsed \in Payloads \cup {NULL} :
       LET c == [capture EXCEPT !.parsing = @ - 1]
       IN capture' = IF parsed = NULL THEN c ELSE OnJson(c, parsed)
  /\ UNCHANGED <<now, module, calls, pc, url, eventId, locals, ret, lookup,
                 fx, counters>>
  /\ UNCHANGED <<page, aside>>

\* What the timer callback does (lines 223-227): detach and resolve null.
OnTimeout(c) ==
  Resolve([c EXCEPT !.timer = FALSE,
                    !.offs = @ + 1,
                    !.listener = FALSE], NULL)

captureTimeout ==
  /\ capture.timer
  /\ capture' = OnTimeout(capture)
  /\ UNCHANGED <<now, module, calls, pc, url, eventId, locals, ret, lookup,
                 fx, counters>>
  /\ UNCHANGED <<page, aside>>

\* Line 488: await fetchNetworkData(...) continues with the resolved value.
captureResolved ==
  /\ pc = "capture"
  /\ capture.promise = "resolved"
  /\ networkData' = capture.value
  /\ pc' = "tickets"
  /\ UNCHANGED <<now, module, calls, url, eventId, retryCount,
                 navigationSuccess, attempt, passed, realEventPage,
                 stadiumData, tickets, ret, lookup, fx, counters, capture>>
  /\ UNCHANGED <<page, aside>>

\* ------------------------------------------------- tickets and the result
\* What page.$$eval (lines 492-510) can return.
TicketLists == {<<>>, <<[sectionRow |-> "Sec 101 Row A", price |-> "$50"]>>}

\* The result returned when nothing was extracted (521-526).
EmptyResult(id) ==
  [eventId |-> id, tickets |-> <<>>, stadiumData |-> NULL,
   networkData |-> NULL]

\* if (!stadiumData || !stadiumData.layoutData ||
\*     stadiumData.layoutData.length === 0 || !tickets || tickets.length === 0)
NoData(sd, tk) ==
  \/ sd = NULL
  \/ Len(sd.layoutData) = 0
  \/ Len(tk) = 0

\* Lines 531-537: networkDataCache.set(eventId, {data: networkData,
\* timestamp: Date.now()}) when there is network data.
CachePut(cache, id, res, nd, t) ==
  IF nd # NULL
  THEN [cache EXCEPT ![id] = [data |-> nd, timestamp |-> t]]
  ELSE cache

\* Lines 540-545 and 555: the result object, with the timestamp added
\* before it is emitted.
Result(id, tk, sd, nd, t) ==
  [eventId |-> id, tickets |-> tk, stadiumData |-> sd, networkData |-> nd,
   timestamp |-> t]

\* ticketEmitter.emit("ticketUpdate", result) (line 556) as the listener of
\* part_001 lines 43-45 forwards it: io.to(`event-${data.eventId}`).
ticketUpdate(data) ==
  [topic |-> [event |-> data.eventId], data |-> data]

\* Lines 492-556: extract the tickets; return the empty result when there is
\* no stadium layout or no ticket; otherwise cache, build the result, write
\* it to a file and emit ticketUpdate.
extractTickets ==
  /\ pc = "tickets"
  /\ \E tk \in TicketLists :
       /\ tickets' = tk
       /\ IF NoData(stadiumData, tk)
          THEN /\ ret' = Returned(EmptyResult(eventId))
               /\ pc' = "done"
               /\ fx' = fx \cup {"extract"}
               /\ UNCHANGED <<networkDataCache, result, published>>
          ELSE /\ result' = Result(eventId, tk, stadiumData, networkData, now)
               /\ networkDataCache' =
                    CachePut(networkDataCache, eventId, result', networkData,
                             now)
               /\ published' = Append(published, ticketUpdate(result'))
               /\ fx' = fx \cup {"extract", "publish"}
               /\ pc' = "ipCheck"
               /\ UNCHANGED ret
  /\ UNCHANGED <<now, browserCache, pageContent, calls, url, eventId,
                 retryCount, navigationSuccess, attempt, passed,
                 realEventPage, stadiumData, networkData, gotos, navShots,
                 backoffs, remediations, lookup, capture>>
  /\ UNCHANGED <<page, aside>>

\* Lines 565-569: navigate the page to api.ipify.org, which can throw, and
\* return the result.
returnResult ==
  /\ pc = "ipCheck"
  /\ \E ok \in BOOLEAN :
       ret' = IF ok THEN Returned(result)
              ELSE Thrown("navigation")
  /\ pc' = "done"
  /\ fx' = fx \cup {"goto"}
  /\ UNCHANGED <<now, module, calls, url, eventId, locals, lookup, counters,
                 capture>>
  /\ UNCHANGED <<page, aside>>

FetchNext ==
  \/ Tick \/ Call \/ getBrowser \/ navigate \/ navigateExit
  \/ gateIteration \/ gateExit \/ acceptModal
  \/ validate \/ reload \/ botCheckbox \/ validationExit
  \/ dataExtraction \/ extractStadiumData \/ fetchNetworkData
  \/ responseHandler \/ responseJson \/ captureTimeout \/ captureResolved
  \/ extractTickets \/ returnResult

\* ---------------------------------------------------------- detectChanges
SectionRows == {"Sec 101 Row A", "Sec 102 Row B"}
Prices == {"$40", "$50", "$60"}
Tickets == [sectionRow : SectionRows, price : Prices]

SeqsUpTo(S, n) == UNION {[1..k -> S] : k \in 0..n}

\* A snapshot is a network payload: with a tickets array, or without one.
SnapshotsUpTo(n) ==
  {[hasTickets |-> TRUE, tickets |-> t] : t \in SeqsUpTo(Tickets, n)}
    \cup {[hasTickets |-> FALSE, tickets |-> <<>>]}

\* A JavaScript Map is a sequence of entries in insertion order.
\* Map.prototype.has
MapHas(m, k) == \E i \in 1..Len(m) : m[i].key = k

\* Map.prototype.get, for a key the map has
MapGet(m, k) == m[CHOOSE i \in 1..Len(m) : m[i].key = k].value

\* Map.prototype.set: a present key keeps its position and takes the new
\* value, a new key is appended.
MapSetFirstWins(m, k, v) ==
  IF MapHas(m, k) THEN m ELSE Append(m, [key |-> k, value |-> v])
MapSet(m, k, v) ==
  IF MapHas(m, k)
  THEN [i \in 1..Len(m) |-> IF m[i].key = k THEN [key |-> k, value |-> v]
                            ELSE m[i]]
  ELSE Append(m, [key |-> k, value |-> v])

\* new Map(tickets.map((t) => [t.sectionRow, t]))
RECURSIVE MapOf(_)
MapOf(arr) ==
  IF arr = <<>> THEN <<>>
  ELSE LET front == SubSeq(arr, 1, Len(arr) - 1)
           t == arr[Len(arr)]
       IN MapSet(MapOf(front), t.sectionRow, t)

PriceChange(k, old, new) ==
  [type |-> "PRICE_CHANGE",
   details |-> [sectionRow |-> k, oldPrice |-> old, newPrice |-> new]]

NewSection(k, p) ==
  [type |-> "NEW_SECTION", details |-> [sectionRow |-> k, price |-> p]]

\* Lines 145-157: the first loop over newTickets, entries 1..n.
RECURSIVE PriceChanges(_, _, _)
PriceChanges(oldTickets, newTickets, n) ==
  IF n = 0 THEN <<>>
  ELSE LET e == newTickets[n]
           rest == PriceChanges(oldTickets, newTickets, n - 1)
       IN IF MapHas(oldTickets, e.key)
             /\ MapGet(oldTickets, e.key).price # e.value.price
          THEN Append(rest, PriceChange(e.key,
                                        MapGet(oldTickets, e.key).price,
                                        e.value.price))
          ELSE rest

\* Lines 160-170: the second loop over newTickets, entries 1..n.
RECURSIVE NewSectionsInverted(_, _, _)
NewSectionsInverted(oldTickets, newTickets, n) ==
  IF n = 0 THEN <<>>
  ELSE LET e == newTickets[n]
           rest == NewSectionsInverted(oldTickets, newTickets, n - 1)
       IN IF MapHas(oldTickets, e.key)
          THEN Append(rest, NewSection(e.key, e.value.price))
          ELSE rest
RECURSIVE NewSections(_, _, _)
NewSections(oldTickets, newTickets, n) ==
  IF n = 0 THEN <<>>
  ELSE LET e == newTickets[n]
           rest == NewSections(oldTickets, newTickets, n - 1)
       IN IF ~MapHas(oldTickets, e.key)
          THEN Append(rest, NewSection(e.key, e.value.price))
          ELSE rest

\* Lines 134-174.
detectChangesNewFirst(old, new) ==
  IF old = NULL THEN <<>>
  ELSE IF old.hasTickets /\ new.hasTickets
       THEN LET oldTickets == MapOf(old.tickets)
                newTickets == MapOf(new.tickets)
            IN NewSections(oldTickets, newTickets, Len(newTickets))
                 \o PriceChanges(oldTickets, newTickets, Len(newTickets))
       ELSE <<>>
detectChangesNoGuard(old, new) ==
  LET oldTickets == IF old = NULL THEN <<>> ELSE MapOf(old.tickets)
      newTickets == MapOf(new.tickets)
  IN IF new.hasTickets /\ (old = NULL \/ old.hasTickets)
     THEN PriceChanges(oldTickets, newTickets, Len(newTickets))
            \o NewSections(oldTickets, newTickets, Len(newTickets))
     ELSE <<>>
RECURSIVE Removed(_, _, _)
Removed(oldTickets, newTickets, n) ==
  IF n = 0 THEN <<>>
  ELSE LET e == oldTickets[n]
           rest == Removed(oldTickets, newTickets, n - 1)
       IN IF ~MapHas(newTickets, e.key)
          THEN Append(rest, [type |-> "AVAILABILITY_CHANGE",
                             details |-> [sectionRow |-> e.key]])
          ELSE rest
detectChangesWithRemoved(old, new) ==
  IF old = NULL THEN <<>>
  ELSE IF old.hasTickets /\ new.hasTickets
       THEN LET oldTickets == MapOf(old.tickets)
                newTickets == MapOf(new.tickets)
            IN PriceChanges(oldTickets, newTickets, Len(newTickets))
                 \o NewSections(oldTickets, newTickets, Len(newTickets))
                 \o Removed(oldTickets, newTickets, Len(oldTickets))
       ELSE <<>>
detectChanges(old, new) ==
  IF old = NULL THEN <<>>
  ELSE IF old.hasTickets /\ new.hasTickets
       THEN LET oldTickets == MapOf(old.tickets)
                newTickets == MapOf(new.tickets)
            IN PriceChanges(oldTickets, newTickets, Len(newTickets))
                 \o NewSections(oldTickets, newTickets, Len(newTickets))
       ELSE <<>>

\* Every pair of arguments detectChanges can be called with: the stored
\* snapshot may be missing, the new one never is (pollTickets line 76).
DiffInit ==
  /\ FetchInit
  /\ pageContent = "unbound"
  /\ oldData \in SnapshotsUpTo(MaxOld) \cup {NULL}
  /\ newData \in SnapshotsUpTo(MaxNew)
  /\ changes = <<>>
  /\ diffPc = "ready"
  /\ CapIdle /\ PollIdle /\ LaunchIdle /\ TabsIdle

Diff ==
  /\ diffPc = "ready"
  /\ changes' = detectChanges(oldData, newData)
  /\ diffPc' = "done"
  /\ UNCHANGED <<oldData, newData>>
  /\ UNCHANGED <<fetchVars, capVars, pollVars, launchVars, tabVars>>

DiffSpec == DiffInit /\ [][Diff]_vars

\* ------------------------------------------------ the capped changes list
\* Array.prototype.slice(-n): the last n elements, all of them when the
\* array is shorter.
SliceLast(arr, n) ==
  IF Len(arr) <= n THEN arr ELSE SubSeq(arr, Len(arr) - n + 1, Len(arr))

\* part_001 lines 81-87 and ticket controller lines 117-123:
\*   if (changes.length > 0) {
\*     ticketUrl.changes.push(...changes);
\*     if (ticketUrl.changes.length > 100)
\*       ticketUrl.changes = ticketUrl.changes.slice(-100);
\*   }
appendChangesKeepOldest(list, batch) ==
  IF Len(batch) > 0
  THEN LET pushed == list \o batch
       IN IF Len(pushed) > changesCap THEN SubSeq(pushed, 1, changesCap)
          ELSE pushed
  ELSE list
appendChanges(list, batch) ==
  IF Len(batch) > 0
  THEN LET pushed == list \o batch
       IN IF Len(pushed) > changesCap THEN SliceLast(pushed, changesCap)
          ELSE pushed
  ELSE list

\* The k change events a cycle produces after n earlier ones; an event is
\* identified by its place in the order of production.
Batch(n, k) == [i \in 1..k |-> n + i]

\* One cycle of either handler appends its batch and the document is saved.
UpdateChanges(by) ==
  \E k \in 0..MaxBatch :
    /\ produced + k <= MaxProduced
    /\ stored' = appendChanges(stored, Batch(produced, k))
    /\ produced' = produced + k
    /\ capBy' = by
    /\ capPrev' = stored
    /\ UNCHANGED <<fetchVars, diffVars, pollVars, launchVars, tabVars>>

pollTicketsChanges == UpdateChanges("pollTickets")

fetchAndUpdateTicketsChanges == UpdateChanges("fetchAndUpdateTickets")

CapInit == Init /\ pageContent = "unbound"

CapNext == pollTicketsChanges \/ fetchAndUpdateTicketsChanges

CapSpec == CapInit /\ [][CapNext]_vars

\* ------------------------------------------------- the scheduled poller
\* new Date()
Date(t) == [date |-> t]

\* What a fetchAvailableTickets call made by a handler can settle with: a
\* thrown error, the failed result of the gate, the botCheck result of the
\* validation, or a result with tickets, a stadium layout and a network
\* payload.
SnapshotA ==
  [hasTickets |-> TRUE,
   tickets |-> <<[sectionRow |-> "Sec 101 Row A", price |-> "$50"]>>]
FetchOutcomes(u, t) ==
  LET id == eventIdMatch(u).id
  IN {Thrown("fetch"), Returned(FailedResult(id)),
      Returned(BotCheckResult(id)),
      Returned(Result(id, SnapshotA.tickets,
                      [layoutData |-> <<"section">>], SnapshotA, t))}

\* A result that reports the bot gate: status "failed" (lines 359-366) or
\* botCheck true (lines 462-468).
IsGateFailure(v) ==
  \/ "status" \in DOMAIN v /\ v.status = "failed"
  \/ "botCheck" \in DOMAIN v /\ v.botCheck

\* part_001 lines 62-92 and ticket controller lines 101-128: the in-memory
\* document after the assignments that follow a returned fetch.
updateDocument(doc, res, t) ==
  LET d1 == [doc EXCEPT !.tickets = res.tickets, !.lastChecked = Date(t)]
      d2 == IF res.stadiumData # NULL
            THEN [d1 EXCEPT !.stadium = [layout |-> res.stadiumData,
                                         lastUpdated |-> Date(t)]]
            ELSE d1
      d3 == IF res.networkData # NULL
            THEN [d2 EXCEPT
                    !.changes =
                       appendChanges(@, detectChanges(d2.lastNetworkData,
                                                      res.networkData)),
                    !.lastNetworkData = res.networkData]
            ELSE d2
  IN [d3 EXCEPT !.lastSuccessfulFetch = Date(t), !.fetchCount = @ + 1]

\* ticketUrl.save(): the paths whose in-memory value differs from the value
\* that was loaded are written over the stored document.
saveDocument(storedDoc, loaded, mem) ==
  [f \in DOMAIN mem |-> IF mem[f] # loaded[f] THEN mem[f] ELSE storedDoc[f]]

IdsOf(docs) == [k \in 1..Len(docs) |-> docs[k].id]

\* TicketUrl.find()
AllDocuments == [k \in 1..Cardinality(DocIds) |-> db[k]]

\* if (isPolling) return;
InProgressNever(flag) == FALSE
InProgress(flag) == flag

\* for (const ticketUrl of urls): the body starts for entry k by calling
\* fetchAvailableTickets, or the loop is over.
StartFetch(c, k) ==
  IF k <= Len(c.urls)
  THEN [c EXCEPT !.pc = "fetch", !.idx = k, !.gateFailure = FALSE,
                 !.doc = NULL,
                 !.started = Append(@, c.urls[k].id), !.inflight = @ + 1]
  ELSE [c EXCEPT !.pc = "ended", !.idx = 0, !.gateFailure = FALSE,
                 !.doc = NULL,
                 !.urls = <<>>,
                 !.failed = 0]

\* The body for the current entry is over; the loop goes on.
AfterEndpoint(c) == StartFetch([c EXCEPT !.inflight = @ - 1], c.idx + 1)

\* catch (err) of lines 96-98, inside the loop.
AfterErrorAbort(c) ==
  [c EXCEPT !.pc = "ended", !.idx = 0, !.inflight = @ - 1, !.failed = 0,
            !.gateFailure = FALSE, !.doc = NULL, !.urls = <<>>]
AfterError(c) == AfterEndpoint([c EXCEPT !.failed = @ + 1])

\* finally { isPolling = false } once invocation i is over.
Finally(i) ==
  isPolling' = IF cyc'[i].pc = "ended" THEN FALSE ELSE isPolling

\* Lines 51-55: a timer tick calls pollTickets, which returns at once when
\* a cycle is in progress and otherwise raises the flag and awaits find().
pollTickets ==
  /\ ticks < MaxTicks
  /\ ticks' = ticks + 1
  /\ IF InProgress(isPolling)
     THEN /\ cyc' = [cyc EXCEPT ![ticks + 1].pc = "skipped"]
          /\ UNCHANGED isPolling
     ELSE /\ cyc' = [cyc EXCEPT ![ticks + 1].pc = "find"]
          /\ isPolling' = TRUE
  /\ UNCHANGED <<db, req, saves>>
  /\ UNCHANGED <<fetchVars, diffVars, capVars, launchVars, tabVars>>

\* Lines 55-57 and 99-104: find() settles; a rejection goes to the outer
\* catch and the finally block.
pollFindResolved(i) ==
  /\ cyc[i].pc = "find"
  /\ \E ok \in BOOLEAN :
       cyc' = [cyc EXCEPT ![i] =
                 IF ok
                 THEN StartFetch([@ EXCEPT !.urls = AllDocuments,
                                           !.batch = IdsOf(AllDocuments)], 1)
                 ELSE [@ EXCEPT !.pc = "ended"]]
  /\ Finally(i)
  /\ UNCHANGED <<db, ticks, req, saves>>
  /\ UNCHANGED <<fetchVars, diffVars, capVars, launchVars, tabVars>>

\* Lines 58-94: fetchAvailableTickets settles; the document is updated in
\* memory and save() is awaited, or the error is caught.
pollFetchResolved(i) ==
  /\ cyc[i].pc = "fetch"
  /\ \E out \in FetchOutcomes(cyc[i].urls[cyc[i].idx].url, now) :
       cyc' = [cyc EXCEPT ![i] =
                 IF out.kind = "thrown" THEN AfterError(@)
                 ELSE [@ EXCEPT !.pc = "save",
                                !.gateFailure = IsGateFailure(out.value),
                                !.doc = updateDocument(cyc[i].urls[cyc[i].idx],
                                                       out.value, now)]]
  /\ Finally(i)
  /\ UNCHANGED <<db, ticks, req, saves>>
  /\ UNCHANGED <<fetchVars, diffVars, capVars, launchVars, tabVars>>

\* Lines 94-98: save() settles.
pollSaveResolved(i) ==
  /\ cyc[i].pc = "save"
  /\ \E ok \in BOOLEAN :
       IF ok
       THEN /\ db' = [db EXCEPT ![cyc[i].doc.id] =
                        saveDocument(@, cyc[i].urls[cyc[i].idx], cyc[i].doc)]
            /\ saves' = saves + 1
            /\ cyc' = [cyc EXCEPT ![i] = AfterEndpoint(@)]
       ELSE /\ cyc' = [cyc EXCEPT ![i] = AfterError(@)]
            /\ UNCHANGED <<db, saves>>
  /\ Finally(i)
  /\ UNCHANGED <<ticks, req>>
  /\ UNCHANGED <<fetchVars, diffVars, capVars, launchVars, tabVars>>

\* ------------------------------------------------- the on-demand handler
\* Ticket controller lines 91-93: POST /:id/fetch arrives and findById is
\* awaited.
fetchAndUpdateTickets(j) ==
  /\ req[j].pc = "unborn"
  /\ IF j = 1 THEN TRUE ELSE req[j - 1].pc # "unborn"
  /\ \E id \in DocIds \cup {MissingId} :
       req' = [req EXCEPT ![j] = [@ EXCEPT !.pc = "findById", !.id = id]]
  /\ UNCHANGED <<isPolling, db, cyc, ticks, saves>>
  /\ UNCHANGED <<fetchVars, diffVars, capVars, launchVars, tabVars>>

\* Lines 93-99: 404 when there is no such document, otherwise
\* fetchAvailableTickets is awaited.
requestFound(j) ==
  /\ req[j].pc = "findById"
  /\ req' = [req EXCEPT ![j] =
               IF @.id \in DocIds
               THEN [@ EXCEPT !.pc = "fetch", !.loaded = db[req[j].id]]
               ELSE [@ EXCEPT !.pc = "done", !.status = 404]]
  /\ UNCHANGED <<isPolling, db, cyc, ticks, saves>>
  /\ UNCHANGED <<fetchVars, diffVars, capVars, launchVars, tabVars>>

\* Lines 99-131 and 132-135.
requestFetchResolved(j) ==
  /\ req[j].pc = "fetch"
  /\ \E out \in FetchOutcomes(req[j].loaded.url, now) :
       req' = [req EXCEPT ![j] =
                 IF out.kind = "thrown"
                 THEN [@ EXCEPT !.pc = "done", !.status = 500,
                                !.id = MissingId, !.loaded = NULL]
                 ELSE [@ EXCEPT !.pc = "save",
                                !.gateFailure = IsGateFailure(out.value),
                                !.doc = updateDocument(req[j].loaded,
                                                       out.value, now)]]
  /\ UNCHANGED <<isPolling, db, cyc, ticks, saves>>
  /\ UNCHANGED <<fetchVars, diffVars, capVars, launchVars, tabVars>>

\* Lines 130-135: save() settles.
requestSaveResolved(j) ==
  /\ req[j].pc = "save"
  /\ \E ok \in BOOLEAN :
       IF ok
       THEN /\ db' = [db EXCEPT ![req[j].id] =
                        saveDocument(@, req[j].loaded, req[j].doc)]
            /\ saves' = saves + 1
            /\ req' = [req EXCEPT ![j] = [@ EXCEPT !.pc = "done",
                                                   !.status = 200,
                                                   !.id = MissingId,
                                                   !.loaded = NULL,
                                                   !.gateFailure = FALSE,
                                                   !.doc = NULL]]
       ELSE /\ req' = [req EXCEPT ![j] = [@ EXCEPT !.pc = "done",
                                                   !.status = 500,
                                                   !.id = MissingId,
                                                   !.loaded = NULL,
                                                   !.gateFailure = FALSE,
                                                   !.doc = NULL]]
            /\ UNCHANGED <<db, saves>>
  /\ UNCHANGED <<isPolling, cyc, ticks>>
  /\ UNCHANGED <<fetchVars, diffVars, capVars, launchVars, tabVars>>

PollInit == Init /\ pageContent = "unbound"

PollNext ==
  \/ pollTickets
  \/ \E i \in Cycles : pollFindResolved(i)
  \/ \E i \in Cycles : pollFetchResolved(i)
  \/ \E i \in Cycles : pollSaveResolved(i)
  \/ \E j \in Requests : fetchAndUpdateTickets(j)
  \/ \E j \in Requests : requestFound(j)
  \/ \E j \in Requests : requestFetchResolved(j)
  \/ \E j \in Requests : requestSaveResolved(j)

PollSpec == PollInit /\ [][PollNext]_vars

\* ------------------------------------------ getBrowser called concurrently
\* Lines 85-88 and 90: the invocation returns the cached browser, or calls
\* puppeteer.launch and awaits it.
getBrowserCall(c) ==
  /\ acq[c].pc = "idle"
  /\ acq' = [acq EXCEPT ![c] =
               IF browserCache # NULL
               THEN [pc |-> "returned", handle |-> browserCache.browser]
               ELSE [pc |-> "launching", handle |-> 0]]
  /\ UNCHANGED <<browserCache, launched, cleanupPc>>
  /\ UNCHANGED <<now, networkDataCache, pageContent, calls, pc, url, eventId,
                 locals, ret, lookup, fx, counters, capture, page>>
  /\ UNCHANGED <<diffVars, capVars, pollVars, tabVars>>

\* Lines 91-118: the launch settles; the new browser (named after the
\* invocation that launched it) is stored under "default" and returned, or
\* the rejection is passed on.
launchResolved(c) ==
  /\ acq[c].pc = "launching"
  /\ \E ok \in BOOLEAN :
       IF ok
       THEN /\ browserCache' = [browser |-> c]
            /\ launched' = launched + 1
            /\ acq' = [acq EXCEPT ![c] = [pc |-> "returned", handle |-> c]]
       ELSE /\ acq' = [acq EXCEPT ![c] = [pc |-> "thrown", handle |-> 0]]
            /\ UNCHANGED <<browserCache, launched>>
  /\ UNCHANGED cleanupPc
  /\ UNCHANGED <<now, networkDataCache, pageContent, calls, pc, url, eventId,
                 locals, ret, lookup, fx, counters, capture, page>>
  /\ UNCHANGED <<diffVars, capVars, pollVars, tabVars>>

\* Lines 581-589 without a cached browser: both maps are cleared at once.
\* With one, browser.close() is awaited first.
cleanup ==
  /\ cleanupPc = "idle"
  /\ IF browserCache # NULL
     THEN /\ cleanupPc' = "closing"
          /\ UNCHANGED <<networkDataCache, launched>>
     ELSE /\ cleanupPc' = "done"
          /\ networkDataCache' = [e \in EventIds |-> NULL]
          /\ launched' = 0
  /\ UNCHANGED <<browserCache, acq>>
  /\ UNCHANGED <<now, pageContent, calls, pc, url, eventId, locals, ret,
                 lookup, fx, counters, capture, page>>
  /\ UNCHANGED <<diffVars, capVars, pollVars, tabVars>>

\* Lines 585-588: close() settles; the maps are cleared unless it rejected.
closeResolved ==
  /\ cleanupPc = "closing"
  /\ \E ok \in BOOLEAN :
       IF ok
       THEN /\ browserCache' = NULL
            /\ networkDataCache' = [e \in EventIds |-> NULL]
            /\ launched' = 0
            /\ cleanupPc' = "done"
       ELSE /\ cleanupPc' = "thrown"
            /\ UNCHANGED <<browserCache, networkDataCache, launched>>
  /\ UNCHANGED acq
  /\ UNCHANGED <<now, pageContent, calls, pc, url, eventId, locals, ret,
                 lookup, fx, counters, capture, page>>
  /\ UNCHANGED <<diffVars, capVars, pollVars, tabVars>>

LaunchInit == Init /\ pageContent = "unbound"

LaunchNext ==
  \/ \E c \in Callers : getBrowserCall(c)
  \/ \E c \in Callers : launchResolved(c)
  \/ cleanup
  \/ closeResolved

LaunchSpec == LaunchInit /\ [][LaunchNext]_vars

\* --------------------------------------- overlapping cycles in one browser
\* Line 255: browser.newPage() settles; the cycle has its page and awaits
\* page.goto (282-284).
newPage(t) ==
  /\ tabs[t].pc = "idle"
  /\ pages' = pages \cup {t}
  /\ tabs' = [tabs EXCEPT ![t].pc = "goto"]
  /\ UNCHANGED <<fetchVars, diffVars, capVars, pollVars, launchVars>>

\* Lines 282-306: page.goto settles.  It rejects when the page has been
\* closed, and may reject anyway; a rejection is counted and rethrown once
\* maxRetries is reached.  Otherwise closeOtherTabs is called and awaits
\* browser.pages() (262).
pageGoto(t) ==
  /\ tabs[t].pc = "goto"
  /\ \E ok \in {o \in BOOLEAN : o => t \in pages} :
       tabs' = [tabs EXCEPT ![t] =
                  IF ok THEN [@ EXCEPT !.pc = "pages"]
                  ELSE IF GiveUp(@.retryCount + 1)
                       THEN [@ EXCEPT !.pc = "thrown",
                                      !.retryCount = @ + 1]
                       ELSE [@ EXCEPT !.retryCount = @ + 1]]
  /\ UNCHANGED pages
  /\ UNCHANGED <<fetchVars, diffVars, capVars, pollVars, launchVars>>

\* Lines 262-264: browser.pages() settles with the pages open now; the ones
\* that are not currentPage are to be closed.
browserPages(t) ==
  /\ tabs[t].pc = "pages"
  /\ tabs' = [tabs EXCEPT ![t] =
                IF pages \ {t} = {}
                THEN [@ EXCEPT !.pc = "using"]
                ELSE [@ EXCEPT !.pc = "closing", !.toClose = pages \ {t}]]
  /\ UNCHANGED pages
  /\ UNCHANGED <<fetchVars, diffVars, capVars, pollVars, launchVars>>

\* Lines 263-267: one p.close() settles; after the last one the cycle goes
\* on with its page (288-568).
pageClose(t) ==
  /\ tabs[t].pc = "closing"
  /\ LET p == CHOOSE q \in tabs[t].toClose :
                \A o \in tabs[t].toClose : q <= o
     IN /\ pages' = pages \ {p}
        /\ tabs' = [tabs EXCEPT ![t] =
                      IF @.toClose = {p}
                      THEN [@ EXCEPT !.pc = "using", !.toClose = {}]
                      ELSE [@ EXCEPT !.toClose = @ \ {p}]]
  /\ UNCHANGED <<fetchVars, diffVars, capVars, pollVars, launchVars>>

\* Lines 288-577: the rest of the cycle works on its page and ends; it
\* throws when the page is gone.  The page is left open (574-577).
usePage(t) ==
  /\ tabs[t].pc = "using"
  /\ tabs' = [tabs EXCEPT ![t].pc =
                IF t \in pages THEN "returned" ELSE "thrown"]
  /\ UNCHANGED pages
  /\ UNCHANGED <<fetchVars, diffVars, capVars, pollVars, launchVars>>

TabsInit == Init /\ pageContent = "unbound"

TabsNext ==
  \/ \E t \in TabIds : newPage(t)
  \/ \E t \in TabIds : pageGoto(t)
  \/ \E t \in TabIds : browserPages(t)
  \/ \E t \in TabIds : pageClose(t)
  \/ \E t \in TabIds : usePage(t)

TabsSpec == TabsInit /\ [][TabsNext]_vars

Next == FetchNext

Spec == Init /\ [][Next]_vars

\* ================================================================ claims

\* C1: whichever way the network capture resolves (a matching JSON response
\* or the timeout), the response listener has been detached from the page
\* exactly once and is no longer attached.
C1_ListenerDetachedOnce ==
  capture.promise = "resolved" => (capture.offs = 1 /\ ~capture.listener)

ResultFields == {"eventId", "tickets", "stadiumData", "networkData"}
IsFullResult(v, id) ==
  /\ ResultFields \subseteq DOMAIN v
  /\ v.eventId = id

\* C2: the merged result of a successfully completed cycle is what the cache
\* holds under the cycle's event identifier, and a cache hit returns such a
\* full result (eventId, tickets, stadiumData, networkData).
C2_CacheHoldsFullResult ==
  /\ pc = "ipCheck" =>
       /\ networkDataCache[eventId] # NULL
       /\ networkDataCache[eventId].data = result
  /\ (pc = "done" /\ lookup = "hit") =>
       /\ ret.kind = "returned"
       /\ IsFullResult(ret.value, eventId)

\* C3: a call that hits the cache has ended, by returning, without acquiring
\* the browser, creating a page, navigating, taking a screenshot, extracting,
\* capturing network data or publishing.
C3_CacheHitNoBrowserWork ==
  lookup = "hit" =>
    /\ pc = "done"
    /\ ret.kind = "returned"
    /\ fx = {}
    /\ gotos = 0 /\ navShots = 0 /\ attempt = 0
    /\ capture = NoCapture
    /\ result = NULL

C3_Witness ==
  /\ lookup = "hit"
  /\ pc = "done"
  /\ calls = 2
  /\ browserCache # NULL

\* A step that starts a call for identifier id.
Starts(id) ==
  /\ pc \in {"idle", "done"}
  /\ calls' = calls + 1
  /\ eventId' = id

\* C4: a call made when the entry of its identifier is 5000 ms old or older
\* does not return the cached value: it goes on to the browser; and a call
\* that returns the cached value found an entry younger than 5000 ms.
C4_EntryServedOnlyWhileFresh ==
  [][\A id \in EventIds :
       (Starts(id) /\ networkDataCache[id] # NULL) =>
         /\ (now - networkDataCache[id].timestamp >= 5000) =>
              (lookup' = "stale" /\ pc' = "getBrowser" /\ ret'.kind = "none")
         /\ (lookup' = "hit") =>
              (now - networkDataCache[id].timestamp < 5000)]_vars

C4_Witness ==
  /\ lookup = "stale"
  /\ "goto" \in fx
  /\ "extract" \in fx
  /\ ret.kind = "none"

\* C5: the gate loop never runs more than 3 iterations, and once it has been
\* left it has either passed (Ready) or produced the failed result.
C5_GateEndsReadyOrFailed ==
  /\ attempt <= 3
  /\ (attempt > 0 /\ pc # "gate") =>
       \/ passed
       \/ ret = Returned(FailedResult(eventId))

IsFailureResult(v, id) ==
  /\ v.eventId = id
  /\ v.tickets = <<>>
  /\ v.stadiumData = NULL
  /\ v.networkData = NULL
  /\ \/ ("status" \in DOMAIN v /\ v.status = "failed")
     \/ ("botCheck" \in DOMAIN v /\ v.botCheck)

\* C6: a call whose gate loop used up its 3 iterations without passing, or
\* whose page validation failed (the page was reloaded for it and is still
\* not the event page), ends by returning an empty result marked with
\* status "failed" or botCheck; it does not throw.
C6_GateFailureReturnsEmptyResult ==
  /\ (pc = "done" /\ attempt = 3 /\ ~passed
        /\ ret # Thrown("waitForFunction timeout")) =>
       (ret.kind = "returned" /\ IsFailureResult(ret.value, eventId))
  /\ (pc = "done" /\ "page.reload" \in fx /\ ~realEventPage) =>
       (ret.kind = "returned" /\ IsFailureResult(ret.value, eventId))

\* Failed navigation attempts of the running call.
FailedGotos == IF navigationSuccess THEN gotos - 1 ELSE gotos

\* C7: at most 3 navigation attempts; a successful one is the last and is
\* followed by the settle delay before the gate runs; every failed one takes
\* a screenshot and every failed one but the third is followed by the
\* backoff; after 3 failures the error is thrown and neither the gate nor
\* extraction, caching or publishing has run.
C7_NavigationRetry ==
  /\ gotos <= 3
  /\ navShots = FailedGotos
  /\ backoffs = IF FailedGotos = 3 THEN 2 ELSE FailedGotos
  /\ navigationSuccess => "settle" \in fx
  /\ pc \notin {"idle", "getBrowser", "navigate", "done"} => navigationSuccess
  /\ attempt > 0 => navigationSuccess
  /\ (FailedGotos = 3) =>
       /\ pc = "done"
       /\ ret = Thrown("navigation")
       /\ ~navigationSuccess
       /\ attempt = 0
       /\ fx \subseteq {"browser", "page", "goto", "screenshot"}
       /\ capture = NoCapture
       /\ result = NULL

C7_Witness ==
  /\ pc = "done"
  /\ gotos = 3
  /\ navShots = 3
  /\ backoffs = 2
  /\ ret = Thrown("navigation")

C7_WitnessSuccess ==
  /\ navigationSuccess
  /\ gotos = 3
  /\ pc = "gate"

\* --- detectChanges
KeysOf(arr) == {arr[i].sectionRow : i \in 1..Len(arr)}

FirstIndex(arr, k) ==
  CHOOSE i \in 1..Len(arr) :
    arr[i].sectionRow = k /\ \A j \in 1..(i - 1) : arr[j].sectionRow # k

LastIndex(arr, k) ==
  CHOOSE i \in 1..Len(arr) :
    arr[i].sectionRow = k /\ \A j \in (i + 1)..Len(arr) : arr[j].sectionRow # k

\* last write wins
LastPrice(arr, k) == arr[LastIndex(arr, k)].price

EventsOf(cs, type, k) ==
  {i \in 1..Len(cs) : cs[i].type = type /\ cs[i].details.sectionRow = k}

BothHaveTickets ==
  /\ diffPc = "done"
  /\ oldData # NULL
  /\ oldData.hasTickets
  /\ newData.hasTickets

\* C8: for a key in both snapshots, the list holds exactly one PRICE_CHANGE
\* for it, from the old price to the new price, when the two (last written)
\* prices differ, and none when they are equal.
C8_PriceChangeExact ==
  BothHaveTickets =>
    \A k \in KeysOf(oldData.tickets) \cap KeysOf(newData.tickets) :
      LET pcs == EventsOf(changes, "PRICE_CHANGE", k)
          old == LastPrice(oldData.tickets, k)
          new == LastPrice(newData.tickets, k)
      IN IF old # new
         THEN /\ Cardinality(pcs) = 1
              /\ \A i \in pcs : changes[i] = PriceChange(k, old, new)
         ELSE pcs = {}

C8_Witness ==
  /\ BothHaveTickets
  /\ Len(oldData.tickets) = 2
  /\ oldData.tickets[1].sectionRow = oldData.tickets[2].sectionRow
  /\ oldData.tickets[1].price # oldData.tickets[2].price
  /\ \E i \in 1..Len(changes) :
       /\ changes[i].type = "PRICE_CHANGE"
       /\ changes[i].details.oldPrice = oldData.tickets[2].price

\* C9: for a key only in the new snapshot, the list holds exactly one
\* NEW_SECTION for it, with the new snapshot's price, and no PRICE_CHANGE.
C9_NewSectionExact ==
  BothHaveTickets =>
    \A k \in KeysOf(newData.tickets) \ KeysOf(oldData.tickets) :
      LET ns == EventsOf(changes, "NEW_SECTION", k)
      IN /\ Cardinality(ns) = 1
         /\ \A i \in ns :
              changes[i] = NewSection(k, LastPrice(newData.tickets, k))
         /\ EventsOf(changes, "PRICE_CHANGE", k) = {}

C9_Witness ==
  /\ BothHaveTickets
  /\ Len(oldData.tickets) > 0
  /\ \E k \in KeysOf(newData.tickets) \ KeysOf(oldData.tickets) :
       /\ EventsOf(changes, "NEW_SECTION", k) # {}
       /\ FirstIndex(newData.tickets, k) # LastIndex(newData.tickets, k)

ExampleA ==
  [hasTickets |-> TRUE,
   tickets |-> <<[sectionRow |-> "Sec 101 Row A", price |-> "$50"]>>]
ExampleB ==
  [hasTickets |-> TRUE,
   tickets |-> <<[sectionRow |-> "Sec 101 Row A", price |-> "$60"],
                 [sectionRow |-> "Sec 102 Row B", price |-> "$40"]>>]

\* C10: in the returned list every PRICE_CHANGE comes before every
\* NEW_SECTION, events of the same type follow the order in which their keys
\* were first inserted from the new snapshot, and for the example pair the
\* list is [PRICE_CHANGE(Sec 101 Row A, $50, $60),
\* NEW_SECTION(Sec 102 Row B, $40)].
C10_Ordered ==
  /\ BothHaveTickets =>
       \A i, j \in 1..Len(changes) :
         i < j =>
           /\ ~(changes[i].type = "NEW_SECTION"
                  /\ changes[j].type = "PRICE_CHANGE")
           /\ changes[i].type = changes[j].type =>
                FirstIndex(newData.tickets, changes[i].details.sectionRow)
                  < FirstIndex(newData.tickets, changes[j].details.sectionRow)
  /\ (diffPc = "done" /\ oldData = ExampleA /\ newData = ExampleB) =>
       changes = << PriceChange("Sec 101 Row A", "$50", "$60"),
                    NewSection("Sec 102 Row B", "$40") >>

C10_Witness ==
  /\ diffPc = "done"
  /\ oldData = ExampleA
  /\ newData = ExampleB
  /\ Len(changes) = 2

\* C11: without a prior snapshot (null or undefined) detectChanges returns
\* the empty list, whatever the new snapshot holds.
C11_NoPriorSnapshotNoChanges ==
  (diffPc = "done" /\ oldData = NULL) => changes = <<>>

C11_Witness ==
  /\ diffPc = "done"
  /\ oldData = NULL
  /\ newData.hasTickets
  /\ Len(newData.tickets) = 2
  /\ newData.tickets[1].sectionRow # newData.tickets[2].sectionRow

\* C12: every event of the returned list is a PRICE_CHANGE or a NEW_SECTION,
\* and a key of the old snapshot that the new one lacks has no event.
C12_OnlyPriceChangeAndNewSection ==
  diffPc = "done" =>
    /\ \A i \in 1..Len(changes) :
         changes[i].type \in {"PRICE_CHANGE", "NEW_SECTION"}
    /\ BothHaveTickets =>
         \A k \in KeysOf(oldData.tickets) \ KeysOf(newData.tickets) :
           \A i \in 1..Len(changes) : changes[i].details.sectionRow # k

C12_Witness ==
  /\ BothHaveTickets
  /\ KeysOf(oldData.tickets) \ KeysOf(newData.tickets) # {}
  /\ Len(changes) > 0

\* The capture of the running call resolved null: the timer fired before a
\* matching JSON response had been parsed.
CaptureTimedOut == capture.promise = "resolved" /\ capture.value = NULL

\* C14: after a capture that resolved null the cycle goes on: it extracts
\* the tickets and ends by returning a value whose networkData is null, and
\* when stadium layout and tickets were found that value carries them; it
\* does not throw.
C14_CaptureTimeoutDoesNotAbort ==
  CaptureTimedOut =>
    /\ pc \in {"capture", "tickets", "ipCheck", "done"}
    /\ pc # "capture" => networkData = NULL
    /\ pc = "done" =>
         /\ ret.kind = "returned"
         /\ ret.value.networkData = NULL
         /\ ret.value.eventId = eventId
         /\ ~NoData(stadiumData, tickets) =>
              /\ ret.value.tickets = tickets
              /\ ret.value.stadiumData = stadiumData

\* The value a call returns when its cycle completed with data.
IsSuccess(r) == r.kind = "returned" /\ result # NULL /\ r.value = result

\* C18: a call that returned its merged result has published it exactly
\* once, to the topic of its own eventId; a call that ended in any other
\* way (cache hit, failed gate, empty extraction, thrown error) has
\* published nothing.
C18_PublishedOncePerCompletedCycle ==
  pc = "done" =>
    IF IsSuccess(ret)
    THEN published = << [topic |-> [event |-> eventId], data |-> ret.value] >>
    ELSE published = <<>>

\* The URL has an "event" segment followed by an identifier.
HasEventSegment(u) ==
  \E i \in 1..(Len(u) - 1) : u[i] = "event" /\ u[i + 1] \in AlnumSegs

IdAfterEvent(u) ==
  LET i == CHOOSE i \in 1..(Len(u) - 1) :
             /\ u[i] = "event" /\ u[i + 1] \in AlnumSegs
             /\ \A j \in 1..(i - 1) :
                  ~(u[j] = "event" /\ u[j + 1] \in AlnumSegs)
  IN u[i + 1]

C13_ChangesCapped ==
  LET kept == IF produced < changesCap THEN produced ELSE changesCap
  IN /\ Len(stored) <= changesCap
     /\ stored = [i \in 1..kept |-> produced - kept + i]

\* The list was full and a batch of more than one event displaced as many
\* of the oldest entries.
C13_Witness ==
  /\ Len(capPrev) = changesCap
  /\ Len(stored) = changesCap
  /\ stored[1] > capPrev[2]
  /\ capBy = "fetchAndUpdateTickets"

\* A pollTickets invocation that is between its first await and its end.
Running(i) == cyc[i].pc \in {"find", "fetch", "save"}

OneCycleRunning ==
  /\ Cardinality({i \in Cycles : Running(i)}) <= 1
  /\ isPolling = (\E i \in Cycles : Running(i))
  /\ \A i \in Cycles :
       cyc[i].pc = "skipped" => cyc[i].started = <<>> /\ cyc[i].batch = <<>>

SkippedTickIsDropped ==
  /\ \A i \in Cycles : cyc[i].pc = "skipped" => cyc'[i] = cyc[i]
  /\ (ticks' # ticks /\ isPolling) =>
       /\ cyc'[ticks'].pc = "skipped"
       /\ \A i \in Cycles \ {ticks'} : cyc'[i] = cyc[i]
       /\ db' = db /\ isPolling' = isPolling

\* C15: at most one scheduled poll cycle runs at any time and the flag is
\* raised exactly while one runs, so it is cleared when the cycle ends,
\* with or without an error; a tick that fires while a cycle runs returns
\* without loading or fetching anything, leaves the running cycle and the
\* stored documents alone, and is never started later.
C15_OneCycleAtATime == []OneCycleRunning /\ [][SkippedTickIsDropped]_vars

\* The second tick fired while the first cycle awaited find() and was
\* skipped; find() then rejected and the flag is down again.
C15_Witness ==
  /\ cyc[1].pc = "ended" /\ cyc[1].batch = <<>>
  /\ cyc[2].pc = "skipped"
  /\ ~isPolling

\* C16: within one poll cycle the loop body runs for one endpoint at a
\* time, in the order find() returned them, and an error caught for one
\* endpoint (from its fetch or its save) does not end the cycle: a cycle
\* that loaded its batch ends only after the body started for every
\* endpoint of the batch.
C16_EndpointErrorsIsolated ==
  \A i \in Cycles :
    /\ cyc[i].inflight = IF cyc[i].pc \in {"fetch", "save"} THEN 1 ELSE 0
    /\ cyc[i].pc \in {"fetch", "save"} =>
         cyc[i].started = SubSeq(cyc[i].batch, 1, cyc[i].idx)
    /\ (cyc[i].pc = "ended" /\ cyc[i].batch # <<>>) =>
         cyc[i].started = cyc[i].batch

\* The first endpoint of the batch failed and nothing was stored for it;
\* the second one has been fetched and is being saved.
C16_Witness ==
  /\ cyc[1].pc = "save" /\ cyc[1].idx = 2 /\ cyc[1].failed = 1
  /\ db[1].fetchCount = 0

\* C17: across interleavings of poll cycles and on-demand requests the
\* stored fetchCount of an endpoint never decreases, and every save that is
\* persisted leaves the stored count of its endpoint one higher than it
\* was just before.
C17_FetchCountMonotonic ==
  [][/\ \A id \in DocIds : db'[id].fetchCount >= db[id].fetchCount
     /\ saves' # saves =>
          \E id \in DocIds : db'[id].fetchCount = db[id].fetchCount + 1]_vars

\* C19: between cleanups at most one browser is launched, and every
\* getBrowser invocation that has returned holds the browser that is cached.
C19_SingleBrowser ==
  /\ launched <= 1
  /\ (cleanupPc = "idle" /\ browserCache # NULL) =>
       \A c \in Callers :
         acq[c].pc = "returned" => acq[c].handle = browserCache.browser

\* C21: when the page that the validation after the consent step inspects
\* is the event page, the validation passes: the call goes on to data
\* extraction, with no reload and nothing thrown.
C21_EventPagePassesValidation ==
  [][(pc = "validate" /\ pc' # "validate" /\ IsEventPage(page)) =>
       /\ pc' = "extractStadium"
       /\ realEventPage'
       /\ ret' = NotThrown
       /\ "page.reload" \notin fx']_vars

\* C22: a failed validation is followed by one reload and a second
\* evaluation on the reloaded page, whose outcome decides whether the call
\* goes on to extraction; and when the captcha control was clicked after a
\* second failure, a page that has become the event page goes on to
\* extraction instead of ending in the botCheck result.
C22_RevalidatedAfterReloadAndClick ==
  [][/\ (pc = "reload" /\ pc' # pc) =>
          /\ "page.reload" \in fx'
          /\ ret' = NotThrown
          /\ (pc' = "extractStadium") = realEventPage'
     /\ (pc = "validated" /\ pc' # pc /\ "captcha click" \in fx
           /\ IsEventPage(page)) =>
          pc' = "extractStadium"]_vars

\* C23: once the gate loop has passed, the consent step always leads on to
\* the loading-indicator wait (which may itself time out) and then to the
\* validation, whether or not the consent control showed up; when it did,
\* it was clicked.
C23_ConsentAbsenceDoesNotAbort ==
  [][(pc = "consent" /\ pc' # pc) =>
       \/ pc' = "validate" /\ ret' = NotThrown
       \/ ret' = Thrown("waitForFunction timeout")]_vars

TicketsAndLastFetchKept(id) ==
  /\ db'[id].tickets = db[id].tickets
  /\ db'[id].lastSuccessfulFetch = db[id].lastSuccessfulFetch

\* C24: a handler whose fetch settles (thrown or returned) stores nothing at
\* that point, so a fetch that threw leaves the stored documents alone; and
\* the save of a handler whose fetch returned a bot-gate failure result
\* leaves the stored tickets and lastSuccessfulFetch of its endpoint as
\* they were.
C24_OnlySuccessOverwrites ==
  [][/\ \A i \in Cycles :
          /\ (cyc[i].pc = "fetch" /\ cyc'[i] # cyc[i]) => db' = db
          /\ (cyc[i].pc = "save" /\ cyc'[i] # cyc[i]
                /\ cyc[i].gateFailure) =>
               TicketsAndLastFetchKept(cyc[i].doc.id)
     /\ \A j \in Requests :
          /\ (req[j].pc = "fetch" /\ req'[j] # req[j]) => db' = db
          /\ (req[j].pc = "save" /\ req'[j] # req[j]
                /\ req[j].gateFailure) =>
               TicketsAndLastFetchKept(req[j].doc.id)]_vars

\* C25: while the stadium extraction or the ticket extraction is in
\* progress the network capture is listening: its response listener is
\* attached and its promise has not settled.
C25_CaptureListensDuringExtraction ==
  pc \in {"stadiumLoop", "tickets"} =>
    capture.listener /\ capture.promise = "pending"

\* C26: a cycle that has its page and has not ended still has that page
\* open in the browser: no other cycle's closeOtherTabs has closed it.
C26_RunningCyclesKeepTheirPage ==
  \A t \in TabIds :
    tabs[t].pc \in {"goto", "pages", "closing", "using"} => t \in pages

GateBounded == remediations <= attempt /\ attempt <= maxAttempts

GateIterationAsObserved ==
  /\ (passed' /\ ~passed) =>
       /\ pc = "gate" /\ attempt' = attempt + 1
       /\ ~page.loading /\ ~page.captcha /\ ~page.blocked
       /\ remediations' = remediations
  /\ (pc = "gate" /\ attempt' = attempt + 1 /\ ~page.loading) =>
       /\ passed' = (~page.captcha /\ ~page.blocked)
       /\ remediations' <= remediations + 1
       /\ page.captcha =>
            /\ remediations' = remediations + 1
            /\ "click" \in fx' /\ fx' \ fx \subseteq {"screenshot", "click"}
       /\ (~page.captcha /\ page.blocked) =>
            /\ remediations' = remediations + 1
            /\ "F5" \in fx' /\ fx' \ fx \subseteq {"screenshot", "F5"}
  /\ (pc = "gate" /\ pc' # "gate" /\ attempt' = attempt /\ ~passed) =>
       /\ attempt = maxAttempts
       /\ ret' = Returned(FailedResult(eventId))

\* C27: the gate loop passes only in an iteration that finds neither the
\* captcha control nor the block text; an iteration that finds the captcha
\* control clicks it and does nothing else, whether or not the block text
\* is there too, and one that finds only the block text presses F5; an
\* iteration makes at most one remediation, so there are never more than 3;
\* and when the loop ends without having passed, after 3 iterations, the
\* failed result is returned whatever the page has become.
C27_GateLoop == []GateBounded /\ [][GateIterationAsObserved]_vars

\* Three iterations each remedied something, by click and by F5, the page
\* is clear now, and no iteration is left to see it.
C27_Witness ==
  /\ pc = "gate" /\ attempt = maxAttempts /\ ~passed
  /\ remediations = maxAttempts
  /\ {"click", "F5"} \subseteq fx
  /\ page = [view |-> "gate", loading |-> FALSE, captcha |-> FALSE,
             blocked |-> FALSE]

====
